---------------------------- MODULE Spec2Model ----------------------------
(***************************************************************************)
(* A model of Scripts/canoe_batch_generator.py: the batch loop of main,    *)
(* generate_test_module, the recursion of generate_test_group and the      *)
(* case, step and skipped factories, with the indentation pass and the     *)
(* write of the document.                                                  *)
(*                                                                         *)
(* The module-global pseudo-random stream of Python's random module is a   *)
(* variable, rng.  It is a deterministic generator: every draw advances    *)
(* rng and returns a function of the new state; random.seed(s) sets rng to *)
(* a function of s.  At process start the stream is seeded from operating  *)
(* system entropy, which is the only nondeterminism of the program.        *)
(*                                                                         *)
(* Virtual time is counted in ticks of 1/512 s, fine enough for every      *)
(* increment the generator can draw to be exact.  Strings are sequences    *)
(* of string tokens; strings whose characters matter are spelled one      *)
(* character per token.                                                    *)
(***************************************************************************)
EXTENDS Integers, Sequences, FiniteSets, TLC

VARIABLES
    args,             \* the parsed command line (main: args)
    rng,              \* state of the global pseudo-random stream
    pc,               \* position of main / generate_test_module
    i,                \* main: loop variable
    num_groups,       \* main: group count of the file being generated
    call,             \* arguments of the running generate_test_module call
    root,             \* generate_test_module: root
    group_num,        \* generate_test_module: loop variable
    current_time,     \* generate_test_module: current_time (ticks)
    stack,            \* frames of the generate_test_group calls
    files,            \* the output folder: filename -> written document
    generated_files,  \* main: generated_files
    calls,            \* the generate_test_module calls made so far, in order
    run,              \* which process run this is (1 or 2)
    prev,             \* what the first run left: its calls and files
    attempts          \* the files tree.write was called for, in order

vars == <<args, rng, pc, i, num_groups, call, root, group_num,
          current_time, stack, files, generated_files, calls, run, prev,
          attempts>>

-----------------------------------------------------------------------------
(* Bounds of the exploration *)

MaxCount == 2
MaxGroups == 2
NumSeeds == 2
NumEntropy == 2

-----------------------------------------------------------------------------
(* The pseudo-random stream *)

Modulus == 65536
Multiplier == 25173
Increment == 13849
RawRange == 256

\* Python's None; a seed is None or an integer
None == -1

\* one step of the generator
Advance(r) == (Multiplier * r + Increment) % Modulus

\* the output of a generator state: RawRange equally likely values
Raw(r) == r \div (Modulus \div RawRange)

\* random.seed(s)
SeedState(s) == (40503 * s + 2531) % Modulus

\* the stream of a fresh process, seeded from entropy e
EntropyState(e) == (17389 * e + 4242) % Modulus

\* random.random() < pct/100, read from the advanced state r
RandomBelow(r, pct) == Raw(r) * 100 < pct * RawRange

\* floor(raw * n / RawRange), in a form that stays within 32 bits
Scale(raw, n) ==
    raw * (n \div RawRange) + (raw * (n % RawRange)) \div RawRange

\* random.randint(a, b), read from the advanced state r
Randint(r, a, b) == a + Scale(Raw(r), b - a + 1)

\* random.choice(seq), read from the advanced state r
Choice(r, seq) == seq[1 + Scale(Raw(r), Len(seq))]

\* random.uniform(lo, hi) = lo + (hi - lo) * random(), lo and hi in ticks
Uniform(r, lo, hi) == lo + Scale(Raw(r), hi - lo)

-----------------------------------------------------------------------------
(* Time and text *)

TicksPerSecond == 512

\* half a second, in ticks
Half == TicksPerSecond \div 2

Secs(n) == n * TicksPerSecond

\* round(t, 1) in tenths of a second: the nearest tenth, ties to even
RoundTenths(t) ==
    LET n == t * 10
        q == n \div TicksPerSecond
        rem == n % TicksPerSecond
        up == (2 * rem > TicksPerSecond) \/ (2 * rem = TicksPerSecond /\ q % 2 = 1)
        tenths == IF up THEN q + 1 ELSE q
    IN  tenths

DigitChars == <<"0", "1", "2", "3", "4", "5", "6", "7", "8", "9">>

RECURSIVE Digits(_)
\* str(n) for n >= 0, one character per token
Digits(n) ==
    IF n < 10 THEN <<DigitChars[n + 1]>>
    ELSE Append(Digits(n \div 10), DigitChars[(n % 10) + 1])

\* str(n) for any integer n
Str(n) == IF n < 0 THEN <<"-">> \o Digits(0 - n) ELSE Digits(n)

RECURSIVE Zeros(_)
Zeros(k) == IF k <= 0 THEN <<>> ELSE <<"0">> \o Zeros(k - 1)

\* f'{n:0{w}d}': zero-padded to at least w digits
Pad(n, w) == Zeros(w - Len(Digits(n))) \o Digits(n)

\* half the spaces asked for
SpacesHalved(k) == [j \in 1..(k \div 2) |-> " "]

RECURSIVE Spaces(_)
Spaces(k) == IF k <= 0 THEN <<>> ELSE <<" ">> \o Spaces(k - 1)

\* the last two characters of a string: s[-2:]
Last2(s) == IF Len(s) <= 2 THEN s ELSE SubSeq(s, Len(s) - 1, Len(s))

\* f'{timestamp:.1f}': integer digits, a point, one fraction digit
Fmt1(t) ==
    Digits(RoundTenths(t) \div 10) \o <<".">> \o Digits(RoundTenths(t) % 10)

\* the value of a digit character
DigitValue(c) == CHOOSE d \in 0..9 : DigitChars[d + 1] = c

RECURSIVE ParseDigits(_)
\* the number a string of digits denotes
ParseDigits(s) ==
    IF Len(s) = 0 THEN 0
    ELSE 10 * ParseDigits(SubSeq(s, 1, Len(s) - 1)) + DigitValue(s[Len(s)])

\* the number of tenths a string of the form 'd...d.d' denotes
ParseTenths(s) ==
    10 * ParseDigits(SubSeq(s, 1, Len(s) - 2)) + DigitValue(s[Len(s)])

\* (date, hour of day) + timedelta(seconds=seconds), then
\* strftime('%Y-%m-%d %H:%M:%S'); the day carries within the month
StrfTime(year, month, day, hour, seconds) ==
    LET total == hour * 3600 + seconds
    IN  Pad(year, 4) \o <<"-">> \o Pad(month, 2) \o <<"-">>
          \o Pad(day + (total \div 86400), 2) \o <<" ">>
          \o Pad((total % 86400) \div 3600, 2) \o <<":">>
          \o Pad((total % 3600) \div 60, 2) \o <<":">>
          \o Pad(total % 60, 2)

-----------------------------------------------------------------------------
(* xml.etree.ElementTree elements *)

\* an element without attributes; attributes are (name, value) pairs in
\* the order they were set
NoAttrib == <<>>

\* text or tail None
NoText == <<>>

\* whether the element has the attribute
HasAttr(elem, name) == \E k \in 1..Len(elem.attrib) : elem.attrib[k][1] = name

\* elem.get(name)
Attr(elem, name) ==
    elem.attrib[CHOOSE k \in 1..Len(elem.attrib) : elem.attrib[k][1] = name][2]

\* ET.Element(tag) with its attributes, text and children set
Element(tag, attrib, text, children) ==
    [tag |-> tag, attrib |-> attrib, text |-> text, tail |-> NoText,
     children |-> children]

\* parent.append(child)
AppendChild(parent, child) ==
    [parent EXCEPT !.children = Append(@, child)]

\* an element holding only text
TextElement(tag, text) == Element(tag, NoAttrib, text, <<>>)

-----------------------------------------------------------------------------
(* generate_random_verdict and generate_test_step *)

\* generate_random_verdict, read from the advanced state r
GenerateRandomVerdict(r) ==
    IF RandomBelow(r, 60) THEN "pass"
    ELSE IF RandomBelow(r, 85) THEN "fail"
    ELSE "inconclusive"

StepTypes == <<"user", "auto", "system">>

Descriptions ==
    <<"Initialize diagnostic session", "Send request frame", "Wait for response",
       "Verify response data", "Check timing constraints", "Validate checksum",
       "Read DTC memory", "Clear DTC status", "Switch to extended session",
       "Security access request", "Read data by identifier", "Write data by identifier",
       "ECU reset", "Communication control", "Tester present",
       "Control DTC setting", "Check voltage level", "Measure temperature",
       "Validate signal timing", "Check bus load", "Verify node availability">>

\* (service_name, service_id)
Services ==
    <<<<<<"ReadDataByIdentifier">>, <<"0", "x", "2", "2">>>>,
       <<<<"WriteDataByIdentifier">>, <<"0", "x", "2", "E">>>>,
       <<<<"ReadDTCInformation">>, <<"0", "x", "1", "9">>>>,
       <<<<"ClearDiagnosticInformation">>, <<"0", "x", "1", "4">>>>,
       <<<<"DiagnosticSessionControl">>, <<"0", "x", "1", "0">>>>,
       <<<<"ECUReset">>, <<"0", "x", "1", "1">>>>,
       <<<<"SecurityAccess">>, <<"0", "x", "2", "7">>>>,
       <<<<"CommunicationControl">>, <<"0", "x", "2", "8">>>>,
       <<<<"TesterPresent">>, <<"0", "x", "3", "E">>>>,
       <<<<"ControlDTCSetting">>, <<"0", "x", "8", "5">>>>>>

\* (actual_resp, actual_hex, error_desc)
ErrorCodes ==
    <<<<<<"7", "F", " ", "2", "2", " ", "7", "8">>, <<"0", "x", "7", "F", "2", "2", "7", "8">>, <<"Response pending timeout">>>>,
       <<<<"7", "F", " ", "2", "2", " ", "3", "1">>, <<"0", "x", "7", "F", "2", "2", "3", "1">>, <<"Request out of range">>>>,
       <<<<"7", "F", " ", "2", "7", " ", "3", "5">>, <<"0", "x", "7", "F", "2", "7", "3", "5">>, <<"Invalid key">>>>,
       <<<<"7", "F", " ", "3", "1", " ", "2", "2">>, <<"0", "x", "7", "F", "3", "1", "2", "2">>, <<"Conditions not correct">>>>>>

\* the step draws a fail/pass value only inside a failing case
StepDrawsResult(verdict_result) == verdict_result = "fail"

\* an inconclusive case treated like a failing one
StepResultUnlessPass(verdict_result, r) ==
    IF verdict_result = "pass" THEN "pass"
    ELSE IF RandomBelow(r, 70) THEN "fail"
    ELSE "pass"

\* step_result, the draw read from the advanced state r
StepResult(verdict_result, r) ==
    IF verdict_result = "pass" THEN "pass"
    ELSE IF verdict_result = "fail" /\ RandomBelow(r, 70) THEN "fail"
    ELSE "pass"

\* the slice taken from the wrong end: actual_resp[:2]
NrcCodeHead(actual_resp) == SubSeq(actual_resp, 1, 2)

\* the code shown in the NRC cell: actual_resp[-2:]
NrcCode(actual_resp) == Last2(actual_resp)

\* rows_data for the chosen service and error code
RowsData(service, error) ==
    LET service_name == service[1]
        service_id == service[2]
        actual_resp == error[1]
        actual_hex == error[2]
        error_desc == error[3]
    IN  << <<<<"Service">>, service_name, service_id>>,
           <<<<"Request">>, service_id \o <<" ", "F", "1", " ", "9", "0">>,
             <<"0", "x">> \o Tail(service_id) \o <<"F", "1", "9", "0">>>>,
           <<<<"Expected">>, <<"62 F1 90 AB CD EF">>, <<"0x62F190ABCDEF">>>>,
           <<<<"Actual">>, actual_resp, actual_hex>>,
           <<<<"Error">>, error_desc, <<"N", "R", "C", " ">> \o NrcCode(actual_resp)>> >>

\* the tabularinfo element: a row per entry of rows_data, a cell per datum;
\* rows is the value of rows_data
Tabular(rows_data) ==
    CHOOSE tabularinfo \in
        {Element("tabularinfo", NoAttrib, NoText,
            [k \in 1..Len(rows) |->
                Element("row", NoAttrib, NoText,
                    [c \in 1..Len(rows[k]) |-> TextElement("cell", rows[k][c])])]) :
            rows \in {rows_data}} : TRUE

\* an advance that may be shorter than half a second
StepAdvanceFromZero(r, timestamp) == timestamp + Uniform(r, 0, Secs(2))

\* the cursor a step returns: timestamp + random.uniform(0.5, 2.0)
StepAdvance(r, timestamp) == timestamp + Uniform(r, Half, Secs(2))

\* generate_test_step from stream state r0: the step, the returned cursor
\* and the stream state it leaves
GenerateTestStep(r0, timestamp, step_num, verdict_result) ==
    LET r1 == Advance(r0)
        level == Randint(r1, 0, 2)
        r2 == Advance(r1)
        type == Choice(r2, StepTypes)
        r3 == IF StepDrawsResult(verdict_result) THEN Advance(r2) ELSE r2
        step_result == StepResult(verdict_result, r3)
        r4 == Advance(r3)
        text == Choice(r4, Descriptions)
        r5 == IF step_result = "fail" THEN Advance(r4) ELSE r4
        has_tabular == step_result = "fail" /\ RandomBelow(r5, 50)
        r6 == IF has_tabular THEN Advance(r5) ELSE r5
        r7 == IF has_tabular THEN Advance(r6) ELSE r6
        r8 == Advance(r7)
        attrib == << <<"timestamp", Fmt1(timestamp)>>,
                     <<"level", Digits(level)>>,
                     <<"type", <<type>>>>,
                     <<"ident", <<"TS-">> \o Pad(step_num, 3)>>,
                     <<"result", <<step_result>>>> >>
        children == IF has_tabular
                    THEN <<Tabular(RowsData(Choice(r6, Services), Choice(r7, ErrorCodes)))>>
                    ELSE <<>>
    IN  [elem |-> Element("teststep", attrib, <<text>>, children),
         time |-> StepAdvance(r8, timestamp),
         rng |-> r8]

-----------------------------------------------------------------------------
(* generate_test_case and generate_skipped_test *)

TestTypes ==
    <<"UDS", "DTC", "CAN", "Diagnostic", "Communication", "Memory",
      "Security", "Session", "Reset", "Voltage", "Temperature", "Timing">>

TestActions ==
    <<"Read", "Write", "Check", "Verify", "Validate", "Test",
      "Monitor", "Control", "Initialize", "Reset">>

TestTargets ==
    <<"DID", "DTC", "Memory", "Status", "Data", "Signal",
      "Frame", "Service", "Session", "Access">>

SkipReasons ==
    <<"Prerequisites_Not_Met", "Environment_Not_Ready", "HW_Not_Available",
      "SW_Version_Mismatch", "Configuration_Missing", "Dependency_Failed",
      "Timeout_Prevention", "Manual_Execution_Only", "Not_Applicable">>

\* a wrong lower end of the step count
NumStepsFromOne(r) == Randint(r, 1, 8)

\* num_steps = random.randint(3, 8)
NumSteps(r) == Randint(r, 3, 8)

\* a sign slip in the first step's offset
FirstStepTimeBackward(timestamp) == timestamp - Half

\* the cursor of the first step of a case
FirstStepTime(timestamp) == timestamp + Half

\* generate_test_case up to its loop, from stream state r0: the locals of
\* the call and the stream state it leaves
CaseBegin(r0, timestamp, case_num) ==
    LET r1 == Advance(r0)
        r2 == Advance(r1)
        r3 == Advance(r2)
        r4 == Advance(r3)
        r5 == Advance(r4)
        title == <<Choice(r1, TestTypes), "_", Choice(r2, TestActions), "_",
                   Choice(r3, TestTargets), "_">> \o Pad(case_num, 4)
        attrib == << <<"timestamp", Fmt1(timestamp)>>,
                     <<"starttime",
                       StrfTime(2024, 1, 25, 10, timestamp \div TicksPerSecond)>> >>
    IN  [testcase |-> Element("testcase", attrib, NoText,
                              <<TextElement("title", title)>>),
         verdict_result |-> GenerateRandomVerdict(r4),
         num_steps |-> NumSteps(r5),
         step_num |-> 1,
         current_time |-> FirstStepTime(timestamp),
         stamped |-> <<>>,
         rng |-> r5]

RECURSIVE CaseSteps(_)
\* the step loop of generate_test_case from the given locals on; c is the
\* value of the locals and st the value generate_test_step returns
CaseSteps(locals) ==
    CHOOSE after \in
        {IF c.step_num > c.num_steps THEN c
         ELSE CHOOSE rest \in
                {CaseSteps([c EXCEPT !.testcase = AppendChild(@, st.elem),
                                     !.stamped = Append(@, c.current_time),
                                     !.current_time = st.time,
                                     !.step_num = @ + 1,
                                     !.rng = st.rng]) :
                    st \in {GenerateTestStep(c.rng, c.current_time, c.step_num,
                                             c.verdict_result)}} : TRUE :
            c \in {locals}} : TRUE

\* the verdict element of a case
VerdictElement(current_time_, verdict_result) ==
    Element("verdict",
            << <<"timestamp", Fmt1(current_time_)>>,
               <<"result", <<verdict_result>>>> >>,
            NoText, <<>>)

\* generate_test_case from stream state r0: the case, the returned cursor,
\* the stream state it leaves, and the values current_time took: at the
\* call, at each step, at the verdict and at the return
GenerateTestCase(r0, timestamp, case_num) ==
    CHOOSE result \in
        {LET r1 == Advance(c.rng)
         IN  [elem |-> AppendChild(c.testcase,
                          VerdictElement(c.current_time, c.verdict_result)),
              time |-> c.current_time + Uniform(r1, Secs(1), Secs(3)),
              clock |-> [timestamp |-> timestamp,
                         steps |-> c.stamped,
                         verdict |-> c.current_time,
                         returned |-> c.current_time
                                        + Uniform(r1, Secs(1), Secs(3))],
              rng |-> r1] :
            c \in {CaseSteps(CaseBegin(r0, timestamp, case_num))}} : TRUE

\* generate_skipped_test, the draw read from the advanced state r
GenerateSkippedTest(r, skip_num) ==
    Element("skipped", NoAttrib, NoText,
            <<TextElement("title",
                <<"Skipped_", Choice(r, SkipReasons), "_">> \o Pad(skip_num, 4))>>)

-----------------------------------------------------------------------------
(* generate_test_group *)

GroupTypes ==
    <<"Communication", "Diagnostic", "Network", "Memory", "Security",
      "Session", "DTC", "UDS", "CAN", "System", "Integration", "Functional">>

GroupAreas == <<"Tests", "Checks", "Validation", "Scenarios", "Cases", "Suite">>

\* the default of generate_test_group's max_level
DefaultMaxLevel == 3

\* a group number: an int at the top level, a string below it
IntId(n) == [is_int |-> TRUE, int |-> n, str |-> <<>>]
StrId(s) == [is_int |-> FALSE, int |-> 0, str |-> s]

\* str(group_num)
IdStr(id) == IF id.is_int THEN Digits(id.int) ELSE id.str

\* group_num_str
GroupNumStr(id) == IF id.is_int THEN Pad(id.int, 3) ELSE id.str

\* the parent's number taken as its title shows it, zero-padded
NestedGroupIdPadded(id, nested_num) ==
    StrId(GroupNumStr(id) \o <<"_">> \o Digits(nested_num))

\* nested_group_id = f'{group_num}_{nested_num}'
NestedGroupId(id, nested_num) == StrId(IdStr(id) \o <<"_">> \o Digits(nested_num))

\* no case has been built
NoClock == [timestamp |-> 0, steps |-> <<>>, verdict |-> 0, returned |-> 0]

\* whether the has_nested test draws from the stream (and short-circuits)
NestedDraws(nested, level, max_level) == nested /\ level < max_level

\* the depth test off by one: level <= max_level
HasNestedInclusive(nested, level, max_level, r) ==
    nested /\ level <= max_level /\ RandomBelow(r, 30)

\* has_nested, the draw read from the advanced state r
HasNested(nested, level, max_level, r) ==
    nested /\ level < max_level /\ RandomBelow(r, 30)

\* num_nested = random.randint(1, 3)
NumNested(r) == Randint(r, 1, 3)

\* num_tests = random.randint(3, 15)
NumTests(r) == Randint(r, 3, 15)

\* the cursor at which a group's content starts
GroupStartTime(timestamp) == timestamp + Secs(1)

\* generate_test_group up to its loop, from stream state r0: the frame of
\* the call and the stream state it leaves
GroupBegin(r0, timestamp, id, level, max_level, nested) ==
    LET r1 == Advance(r0)
        r2 == Advance(r1)
        r3 == IF NestedDraws(nested, level, max_level) THEN Advance(r2) ELSE r2
        r4 == Advance(r3)
        has_nested == HasNested(nested, level, max_level, r3)
        title == Spaces(2 * (level - 1)) \o <<"Level">> \o Digits(level)
                   \o <<"_", Choice(r1, GroupTypes), "_", Choice(r2, GroupAreas), "_">>
                   \o GroupNumStr(id)
    IN  [frame |->
            [elem |-> Element("testgroup", NoAttrib, NoText,
                             <<TextElement("title", title)>>),
             id |-> id,
             level |-> level,
             max_level |-> max_level,
             nested |-> nested,
             has_nested |-> has_nested,
             num |-> IF has_nested THEN NumNested(r4) ELSE NumTests(r4),
             k |-> 1,
             current_time |-> GroupStartTime(timestamp),
             clock |-> NoClock],
         rng |-> r4]

\* the branch decided anew after the first child
BranchNestedFirstOnly(frame) == frame.has_nested /\ frame.k = 1

\* the branch a group's loop takes in its iteration: nested children
BranchNested(frame) == frame.has_nested

-----------------------------------------------------------------------------
(* generate_test_module: indent and the written document *)

Whitespace == {" ", "\n"}

\* the test dropped: every text and tail is overwritten
BlankAlways(s) == TRUE

\* not s or not s.strip()
Blank(s) == \A k \in 1..Len(s) : s[k] \in Whitespace

RECURSIVE Indent(_, _)
\* indent(elem, level): the element as the pass leaves it
Indent(elem, level) ==
    LET ind == <<"\n">> \o Spaces(2 * level)
        n == Len(elem.children)
    IN  IF n > 0
        THEN LET kids == [k \in 1..n |-> Indent(elem.children[k], level + 1)]
             IN  [elem EXCEPT
                    !.text = IF Blank(@) THEN ind \o <<" ", " ">> ELSE @,
                    !.tail = IF Blank(@) THEN ind ELSE @,
                    !.children =
                        [kids EXCEPT ![n].tail = IF Blank(@) THEN ind ELSE @]]
        ELSE IF level # 0 /\ Blank(elem.tail)
             THEN [elem EXCEPT !.tail = ind]
             ELSE elem

RECURSIVE SerializeAttrib(_)
\* ' name="value"' for every attribute, in the order they were set
SerializeAttrib(attrib) ==
    IF Len(attrib) = 0 THEN <<>>
    ELSE <<" ", attrib[1][1], "=\"">> \o attrib[1][2] \o <<"\"">>
           \o SerializeAttrib(Tail(attrib))

RECURSIVE SerializeXml(_)
RECURSIVE SerializeChildren(_)
\* ElementTree's serialization of an element: start tag, text, children,
\* end tag, tail; an element without text and children is written short;
\* e is the value of elem
SerializeXml(elem) ==
    CHOOSE bytes \in
        {(IF Len(e.text) > 0 \/ Len(e.children) > 0
          THEN <<"<", e.tag>> \o SerializeAttrib(e.attrib) \o <<">">>
                 \o e.text \o SerializeChildren(e.children)
                 \o <<"</", e.tag, ">">>
          ELSE <<"<", e.tag>> \o SerializeAttrib(e.attrib) \o <<" />">>)
         \o e.tail : e \in {elem}} : TRUE

SerializeChildren(children) ==
    IF Len(children) = 0 THEN <<>>
    ELSE SerializeXml(children[1]) \o SerializeChildren(Tail(children))

\* tree.write(filename, encoding='UTF-8', xml_declaration=True): the bytes
Document(tree) ==
    <<"<?xml version='1.0' encoding='UTF-8'?>", "\n">> \o SerializeXml(tree)

\* a write that never reaches the folder
WriteFileLost(folder, filename, bytes) == folder

\* the folder after the bytes were written to filename
WriteFile(folder, filename, bytes) == (filename :> bytes) @@ folder

\* the ways tree.write can fail with an OSError: the file cannot be opened,
\* or it is opened (and so emptied) and the write stops at once or part way
WriteOutcomes == {"unopened", "emptied", "partial"}

\* a failure that removes what the folder held
FailedWriteRollback(folder, filename, bytes, outcome) == [f \in {} |-> <<>>]

\* the folder after a write of bytes to filename failed
FailedWrite(folder, filename, bytes, outcome) ==
    IF outcome = "unopened" THEN folder
    ELSE IF outcome = "emptied" THEN (filename :> <<>>) @@ folder
    ELSE (filename :> SubSeq(bytes, 1, Len(bytes) \div 2)) @@ folder

\* the seed never applied
SeedStreamSkipped(r, seed) == r

\* random.seed(seed) when a seed is given
SeedStream(r, seed) == IF seed # None THEN SeedState(seed) ELSE r

\* a range that reaches nine digits
MeasurementNumberWide(r) == Randint(r, 10000000, 999999999)

\* random.randint(10000000, 99999999), read from the advanced state r
MeasurementNumber(r) == Randint(r, 10000000, 99999999)

\* the fixed tail of the measurementid
MeasurementSuffix == <<"-ffff-4444-82aa-af7cs55583">>

\* the module's calendar start: base date plus file_index minutes
ModuleStartTime(file_index) == StrfTime(2026, 2, 10, 10, 60 * file_index)

\* generate_test_module up to its loop, from stream state r0: root and the
\* stream state it leaves
ModuleRoot(r0, n_groups, file_index) ==
    LET r1 == Advance(r0)
        testsetup ==
            Element("testsetup", NoAttrib, NoText,
                <<Element("xinfo", << <<"name", <<"Test Module Name">>>> >>, NoText,
                    <<TextElement("description",
                        <<"Stress Test Module with ">> \o Str(n_groups)
                          \o <<" Groups">>)>>)>>)
        attrib == << <<"starttime", ModuleStartTime(file_index)>>,
                     <<"timestamp", <<"0", ".", "0">>>>,
                     <<"verdicts", <<"2_basic">>>>,
                     <<"measurementid",
                       Pad(MeasurementNumber(r1), 8) \o MeasurementSuffix>> >>
    IN  [root |-> Element("testmodule", attrib, NoText, <<testsetup>>),
         rng |-> r1]

\* a loop that builds one group whatever the count
MoreGroupsAtLeastOne(group_num_, n_groups) ==
    group_num_ <= n_groups \/ group_num_ = 1

\* for group_num in range(1, num_groups + 1): whether an iteration is left
MoreGroups(group_num_, n_groups) == group_num_ <= n_groups

-----------------------------------------------------------------------------
(* main *)

\* filepath = os.path.join(args.folder, f"{args.prefix}{i:03d}.xml")
Filepath(folder, prefix, index) ==
    <<folder, "/", prefix>> \o Pad(index, 3) \o <<".xml">>

\* the base seed handed to every file
FileSeedBase(seed, index) == seed

\* file_seed
FileSeed(seed, index) == IF seed # None THEN seed + index ELSE None

\* the arguments main passes to generate_test_module in iteration index
ModuleCall(a, index, n_groups) ==
    [num_groups |-> n_groups,
     filename |-> Filepath(a.folder, a.prefix, index),
     nested |-> a.nested,
     seed |-> FileSeed(a.seed, index),
     file_index |-> index]

NoCall == [num_groups |-> 0, filename |-> <<>>, nested |-> FALSE,
           seed |-> None, file_index |-> 0]

\* no element: the value of root outside generate_test_module
NoElement == Element("", NoAttrib, NoText, <<>>)

Folders == {"reports"}
Prefixes == {"test_"}
Seeds == {None} \cup (1..NumSeeds)

Args ==
    [folder : Folders, count : 1..MaxCount, groups : (-1)..MaxGroups,
     nested : BOOLEAN, prefix : Prefixes, seed : Seeds,
     random_groups : BOOLEAN]

Init ==
    /\ args \in Args
    /\ \E e \in 1..NumEntropy : rng = EntropyState(e)
    /\ pc = "loop"
    /\ i = 1
    /\ num_groups = 0
    /\ call = NoCall
    /\ root = NoElement
    /\ group_num = 0
    /\ current_time = 0
    /\ stack = <<>>
    /\ files = <<>>
    /\ generated_files = <<>>
    /\ calls = <<>>
    /\ run = 1
    /\ prev = [calls |-> <<>>, files |-> <<>>]
    /\ attempts = <<>>

\* the frame of the innermost running call
Top == stack[Len(stack)]

\* the stack with its innermost frame replaced
SetTop(frame) == [stack EXCEPT ![Len(stack)] = frame]

\* the stack after the innermost call returned into its caller's frame
ReturnInto(frame) == Append(SubSeq(stack, 1, Len(stack) - 2), frame)

\* a loop that stops one iteration short
LoopRunsShort(i_, count) == i_ < count

\* for i in range(1, args.count + 1): whether iteration i runs
LoopRuns(i_, count) == i_ <= count

\* main, one iteration up to the call: group count, filename and file seed
MainIterate ==
    /\ pc = "loop"
    /\ LoopRuns(i, args.count)
    /\ ~(args.random_groups /\ args.groups < 1)
    /\ LET r1 == IF args.random_groups THEN Advance(rng) ELSE rng
           n == IF args.random_groups THEN Randint(r1, 1, args.groups)
                ELSE args.groups
       IN  /\ rng' = r1
           /\ num_groups' = n
           /\ call' = ModuleCall(args, i, n)
           /\ calls' = Append(calls, ModuleCall(args, i, n))
    /\ pc' = "call"
    /\ UNCHANGED <<args, i, root, group_num, current_time, stack, files,
                   generated_files, run, prev,
                   attempts>>

\* main: random.randint(1, args.groups) raises ValueError on an empty range
MainRandintError ==
    /\ pc = "loop"
    /\ LoopRuns(i, args.count)
    /\ args.random_groups /\ args.groups < 1
    /\ pc' = "error"
    /\ UNCHANGED <<args, rng, i, num_groups, call, root, group_num,
                   current_time, stack, files, generated_files, calls, run, prev,
                   attempts>>

\* generate_test_module: seed, root, setup block
ModuleBegin ==
    /\ pc = "call"
    /\ LET m == ModuleRoot(SeedStream(rng, call.seed), call.num_groups,
                           call.file_index)
       IN  /\ root' = m.root
           /\ rng' = m.rng
    /\ current_time' = Secs(10)
    /\ group_num' = 1
    /\ pc' = "groups"
    /\ UNCHANGED <<args, i, num_groups, call, stack, files, generated_files,
                   calls, run, prev,
                   attempts>>

\* generate_test_module: the call of generate_test_group for a top-level group
ModuleCallGroup ==
    /\ pc = "groups"
    /\ stack = <<>>
    /\ MoreGroups(group_num, call.num_groups)
    /\ LET g == GroupBegin(rng, current_time, IntId(group_num), 1,
                           DefaultMaxLevel, call.nested)
       IN  /\ stack' = <<g.frame>>
           /\ rng' = g.rng
    /\ UNCHANGED <<args, pc, i, num_groups, call, root, group_num,
                   current_time, files, generated_files, calls, run, prev,
                   attempts>>

\* generate_test_group: the recursive call for the next nested group
GroupCallNested ==
    /\ pc = "groups"
    /\ stack # <<>>
    /\ BranchNested(Top)
    /\ Top.k <= Top.num
    /\ LET g == GroupBegin(rng, Top.current_time, NestedGroupId(Top.id, Top.k),
                           Top.level + 1, Top.max_level, Top.nested)
       IN  /\ stack' = Append(stack, g.frame)
           /\ rng' = g.rng
    /\ UNCHANGED <<args, pc, i, num_groups, call, root, group_num,
                   current_time, files, generated_files, calls, run, prev,
                   attempts>>

\* generate_test_group: a flat iteration that builds a skipped element
GroupSkipped ==
    /\ pc = "groups"
    /\ stack # <<>>
    /\ ~BranchNested(Top)
    /\ Top.k <= Top.num
    /\ LET r1 == Advance(rng)
           r2 == Advance(r1)
           r3 == Advance(r2)
       IN  /\ RandomBelow(r1, 10)
           /\ stack' = SetTop(
                [Top EXCEPT
                    !.elem = AppendChild(@, GenerateSkippedTest(r2, Top.k)),
                    !.current_time = @ + Uniform(r3, Secs(1), Secs(5)),
                    !.k = @ + 1])
           /\ rng' = r3
    /\ UNCHANGED <<args, pc, i, num_groups, call, root, group_num,
                   current_time, files, generated_files, calls, run, prev,
                   attempts>>

\* generate_test_group: a flat iteration that builds a test case
GroupCase ==
    /\ pc = "groups"
    /\ stack # <<>>
    /\ ~BranchNested(Top)
    /\ Top.k <= Top.num
    /\ ~RandomBelow(Advance(rng), 10)
    /\ \E c \in {GenerateTestCase(Advance(rng), Top.current_time, Top.k)} :
          LET r2 == Advance(c.rng)
          IN  /\ stack' = SetTop(
                   [Top EXCEPT
                       !.elem = AppendChild(@, c.elem),
                       !.current_time = c.time + Uniform(r2, Secs(1), Secs(5)),
                       !.clock = c.clock,
                       !.k = @ + 1])
              /\ rng' = r2
    /\ UNCHANGED <<args, pc, i, num_groups, call, root, group_num,
                   current_time, files, generated_files, calls, run, prev,
                   attempts>>

\* generate_test_group: the return of a nested group into the loop of its
\* parent, which appends it and advances its cursor
GroupReturnNested ==
    /\ pc = "groups"
    /\ Len(stack) >= 2
    /\ Top.k > Top.num
    /\ LET r1 == Advance(rng)
           caller == stack[Len(stack) - 1]
       IN  /\ stack' = ReturnInto(
                [caller EXCEPT
                    !.elem = AppendChild(@, Top.elem),
                    !.current_time = Top.current_time
                                       + Uniform(r1, Secs(2), Secs(5)),
                    !.k = @ + 1])
           /\ rng' = r1
    /\ UNCHANGED <<args, pc, i, num_groups, call, root, group_num,
                   current_time, files, generated_files, calls, run, prev,
                   attempts>>

\* generate_test_group: the return of a top-level group into the loop of
\* generate_test_module, which appends it and advances its cursor
GroupReturnModule ==
    /\ pc = "groups"
    /\ Len(stack) = 1
    /\ Top.k > Top.num
    /\ LET r1 == Advance(rng)
       IN  /\ root' = AppendChild(root, Top.elem)
           /\ current_time' = Top.current_time + Uniform(r1, Secs(5), Secs(15))
           /\ rng' = r1
    /\ group_num' = group_num + 1
    /\ stack' = <<>>
    /\ UNCHANGED <<args, pc, i, num_groups, call, files, generated_files,
                   calls, run, prev,
                   attempts>>

\* generate_test_module: indent, write, return; main records the file
ModuleWrite ==
    /\ pc = "groups"
    /\ stack = <<>>
    /\ ~MoreGroups(group_num, call.num_groups)
    /\ \E tree \in {Indent(root, 0)} :
          /\ root' = tree
          /\ files' = WriteFile(files, call.filename, Document(tree))
    /\ attempts' = Append(attempts, call.filename)
    /\ generated_files' = Append(generated_files, call.filename)
    /\ i' = i + 1
    /\ pc' = "loop"
    /\ UNCHANGED <<args, rng, num_groups, call, group_num, current_time,
                   stack, calls, run, prev>>

\* generate_test_module: indent, then tree.write raises; nothing catches
\* the exception in generate_test_module or in main, and the process ends
ModuleWriteError ==
    /\ pc = "groups"
    /\ stack = <<>>
    /\ ~MoreGroups(group_num, call.num_groups)
    /\ \E tree \in {Indent(root, 0)} :
          /\ root' = tree
          /\ \E outcome \in WriteOutcomes :
                files' = FailedWrite(files, call.filename, Document(tree),
                                     outcome)
    /\ attempts' = Append(attempts, call.filename)
    /\ pc' = "write_error"
    /\ UNCHANGED <<args, rng, i, num_groups, call, group_num, current_time,
                   stack, generated_files, calls, run, prev>>

\* main: the loop is over
MainDone ==
    /\ pc = "loop"
    /\ ~LoopRuns(i, args.count)
    /\ pc' = "done"
    /\ UNCHANGED <<args, rng, i, num_groups, call, root, group_num,
                   current_time, stack, files, generated_files, calls, run, prev,
                   attempts>>

\* the same command line run again as a second process: a fresh stream
\* seeded from entropy; the first run's calls and files are kept in prev
Rerun ==
    /\ pc = "done"
    /\ run = 1
    /\ \E e \in 1..NumEntropy : rng' = EntropyState(e)
    /\ prev' = [calls |-> calls, files |-> files]
    /\ run' = 2
    /\ pc' = "loop"
    /\ i' = 1
    /\ num_groups' = 0
    /\ call' = NoCall
    /\ root' = NoElement
    /\ group_num' = 0
    /\ current_time' = 0
    /\ stack' = <<>>
    /\ generated_files' = <<>>
    /\ calls' = <<>>
    /\ attempts' = <<>>
    /\ UNCHANGED <<args, files>>

Next ==
    \/ MainIterate
    \/ MainRandintError
    \/ ModuleBegin
    \/ ModuleCallGroup
    \/ GroupCallNested
    \/ GroupSkipped
    \/ GroupCase
    \/ GroupReturnNested
    \/ GroupReturnModule
    \/ ModuleWrite
    \/ ModuleWriteError
    \/ MainDone

\* one run of the program
Spec == Init /\ [][Next]_vars

\* one run of the program by an interpreter that executes the next
\* statement for as long as there is one
FairSpec == Spec /\ WF_vars(Next)

\* a command line that gives a base seed
InitSeeded == Init /\ args.seed # None

NextTwice == Next \/ Rerun

\* two runs of the program, one after the other, with one command line
\* that gives a base seed
SpecTwice == InitSeeded /\ [][NextTwice]_vars

-----------------------------------------------------------------------------
(* Reading documents *)

RECURSIVE Flatten(_)
RECURSIVE FlattenAll(_)
\* the elements of a tree in document order
Flatten(elem) == <<elem>> \o FlattenAll(elem.children)

FlattenAll(children) ==
    IF Len(children) = 0 THEN <<>>
    ELSE Flatten(children[1]) \o FlattenAll(Tail(children))

\* the trees under construction, outermost first: each will be appended to
\* the end of the one before it
Building == <<root>> \o [k \in 1..Len(stack) |-> stack[k].elem]

\* every element built so far, in the order of the document
DocOrder == FlattenAll(Building)

\* the elements that are complete: everything below a tree under construction
Completed == FlattenAll([k \in 1..Len(Building) |->
                 [Building[k] EXCEPT !.tag = "", !.attrib = NoAttrib]])

\* the completed elements with a tag, in document order
CompletedOf(tag) == SelectSeq(Completed, LAMBDA e : e.tag = tag)

\* some element of a sequence satisfies P
Some(seq, P(_)) == \E k \in 1..Len(seq) : P(seq[k])

\* every element of a sequence satisfies P
Every(seq, P(_)) == \A k \in 1..Len(seq) : P(seq[k])

\* the children of an element after its title
Content(elem) == Tail(elem.children)

Tags(children) == {children[k].tag : k \in 1..Len(children)}

\* no group is under construction: the module is what root holds
Settled == stack = <<>>

\* a module has been finished in this run
Finished == pc \in {"loop", "done"} /\ Len(generated_files) > 0

-----------------------------------------------------------------------------
(* C1: the timestamp attributes of a module, read in document order (root, *)
(* testcase, teststep and verdict elements), never decrease; this holds of *)
(* the module after each of its top-level groups, and as written.          *)

Timestamps ==
    LET stamped == SelectSeq(DocOrder, LAMBDA e : HasAttr(e, "timestamp"))
    IN  [k \in 1..Len(stamped) |-> ParseTenths(Attr(stamped[k], "timestamp"))]

ClockMonotone ==
    Settled =>
        LET ts == Timestamps
        IN  \A k \in 1..(Len(ts) - 1) : ts[k] <= ts[k + 1]

\* a finished module with nesting, two top-level groups, a skipped element
\* and many stamped elements
ClockMonotoneWitness ==
    /\ Finished
    /\ call.nested
    /\ Len(root.children) >= 3
    /\ Some(CompletedOf("testgroup"), LAMBDA g : "testgroup" \in Tags(Content(g)))
    /\ Len(CompletedOf("skipped")) > 0
    /\ Len(Timestamps) > 20

-----------------------------------------------------------------------------
(* C4: every testgroup is purely nested or purely flat: its children after *)
(* the title are all testgroup elements, or all testcase or skipped        *)
(* elements; no group of a module holds both kinds.                        *)

PureGroup(g) ==
    /\ g.children[1].tag = "title"
    /\ \/ Tags(Content(g)) \subseteq {"testgroup"}
       \/ Tags(Content(g)) \subseteq {"testcase", "skipped"}

GroupsPure ==
    Settled =>
        LET groups == SelectSeq(DocOrder, LAMBDA e : e.tag = "testgroup")
        IN  Every(groups, PureGroup)

\* a finished module holding a group with two nested groups and a flat
\* group with both a testcase and a skipped element
GroupsPureWitness ==
    /\ Finished
    /\ Some(CompletedOf("testgroup"),
            LAMBDA g : Len(Content(g)) >= 2 /\ Tags(Content(g)) = {"testgroup"})
    /\ Some(CompletedOf("testgroup"),
            LAMBDA g : Tags(Content(g)) = {"testcase", "skipped"})

-----------------------------------------------------------------------------
(* C5: with nesting enabled no testgroup is created at a level above the   *)
(* maximum depth (3, top-level groups at level 1), every group at the      *)
(* maximum depth is flat and the recursion is never deeper than that; with *)
(* nesting disabled every top-level group is flat.                         *)

\* the level a group's title names: the digits after "Level"
TitleLevel(g) ==
    LET text == g.children[1].text
        at == CHOOSE k \in 1..Len(text) : text[k] = "Level"
    IN  ParseDigits(<<text[at + 1]>>)

RECURSIVE GroupsWithin(_, _, _)
\* every testgroup below elem, itself at level, is at a level up to limit
\* and names its level in its title
GroupsWithin(elem, level, limit) ==
    \A k \in 1..Len(elem.children) :
        elem.children[k].tag = "testgroup" =>
            /\ level + 1 <= limit
            /\ TitleLevel(elem.children[k]) = level + 1
            /\ GroupsWithin(elem.children[k], level + 1, limit)

RECURSIVE GroupDepth(_)
\* how many levels of testgroup there are below an element
GroupDepth(elem) ==
    LET below == {k \in 1..Len(elem.children) : elem.children[k].tag = "testgroup"}
        depths == {GroupDepth(elem.children[k]) : k \in below}
    IN  IF below = {} THEN 0
        ELSE 1 + CHOOSE d \in depths : \A o \in depths : o <= d

DepthLimit == IF call.nested THEN DefaultMaxLevel ELSE 1

DepthBounded ==
    /\ Settled => GroupsWithin(root, 0, DepthLimit)
    /\ \A k \in 1..Len(stack) :
          /\ stack[k].level = k
          /\ stack[k].level <= DepthLimit
          /\ stack[k].level = DepthLimit => ~stack[k].has_nested

\* a finished module with a group at the maximum depth
DepthBoundedWitness ==
    /\ Finished
    /\ call.nested
    /\ GroupDepth(root) = DefaultMaxLevel

-----------------------------------------------------------------------------
(* C6: every flat testgroup has 3 to 15 children after its title, each a   *)
(* skipped or a testcase element; every testcase has a title, then 3 to 8  *)
(* teststep children, then one verdict as its last child, with result      *)
(* pass, fail or inconclusive; a skipped element has only a title and      *)
(* carries no timestamp and no verdict.                                    *)

Verdicts == {"pass", "fail", "inconclusive"}

FlatGroupShape(g) ==
    "testgroup" \notin Tags(Content(g)) =>
        /\ g.children[1].tag = "title"
        /\ Len(Content(g)) >= 3
        /\ Len(Content(g)) <= 15
        /\ Tags(Content(g)) \subseteq {"skipped", "testcase"}

CaseShape(c) ==
    LET n == Len(c.children)
    IN  /\ n - 2 >= 3
        /\ n - 2 <= 8
        /\ c.children[1].tag = "title"
        /\ \A k \in 2..(n - 1) : c.children[k].tag = "teststep"
        /\ c.children[n].tag = "verdict"
        /\ Attr(c.children[n], "result") \in {<<v>> : v \in Verdicts}

SkippedShape(s) ==
    /\ Len(s.children) = 1
    /\ s.children[1].tag = "title"
    /\ s.attrib = NoAttrib

ContentShape ==
    Settled =>
        /\ Every(CompletedOf("testgroup"), FlatGroupShape)
        /\ Every(CompletedOf("testcase"), CaseShape)
        /\ Every(CompletedOf("skipped"), SkippedShape)

\* a finished module with a flat group of 3 children and one of 15, a case
\* of 3 steps and one of 8, and a skipped element
ContentShapeWitness ==
    /\ Finished
    /\ Some(CompletedOf("testgroup"),
            LAMBDA g : "testgroup" \notin Tags(Content(g)) /\ Len(Content(g)) = 3)
    /\ Some(CompletedOf("testgroup"),
            LAMBDA g : "testgroup" \notin Tags(Content(g)) /\ Len(Content(g)) = 15)
    /\ Some(CompletedOf("testcase"), LAMBDA c : Len(c.children) = 5)
    /\ Some(CompletedOf("testcase"), LAMBDA c : Len(c.children) = 10)
    /\ Len(CompletedOf("skipped")) > 0

-----------------------------------------------------------------------------
(* C7: a testcase draws its verdict once, before any of its steps is      *)
(* built: it is the draw that follows the three title choices, and that    *)
(* value is the result of its one verdict element and the value its steps  *)
(* were built with; a teststep with result fail occurs only in a testcase  *)
(* whose verdict is fail, so every step of a pass case and of an           *)
(* inconclusive case has result pass, and a tabularinfo block occurs only  *)
(* on a teststep whose own result is fail.                                 *)

Result(elem) == Attr(elem, "result")[1]

Steps(c) == SelectSeq(c.children, LAMBDA e : e.tag = "teststep")

\* the steps agree with the verdict of their case
StepsAgree(steps, verdict_result) ==
    Every(steps, LAMBDA s : Result(s) \in {"pass", "fail"}
                            /\ (Result(s) = "fail" => verdict_result = "fail"))

TabularOnlyOnFailedStep(e) ==
    "tabularinfo" \in Tags(e.children) => e.tag = "teststep" /\ Result(e) = "fail"

VerdictConsistent ==
    Settled =>
        /\ Every(CompletedOf("testcase"),
                 LAMBDA c : /\ Len(SelectSeq(c.children,
                                             LAMBDA e : e.tag = "verdict")) = 1
                            /\ StepsAgree(Steps(c),
                                          Result(c.children[Len(c.children)])))
        /\ Every(DocOrder, TabularOnlyOnFailedStep)

\* the stream state after n draws from r
RECURSIVE After(_, _)
After(r, n) == IF n = 0 THEN r ELSE After(Advance(r), n - 1)

\* a step that appends a testcase to the innermost group: the case's verdict
\* is the fifth draw of the iteration (skip test, three title choices,
\* verdict), which precedes every draw of a step
VerdictThreaded ==
    (/\ stack # <<>>
     /\ Len(stack') = Len(stack)
     /\ Len(Top'.elem.children) = Len(Top.elem.children) + 1
     /\ Top'.elem.children[Len(Top'.elem.children)].tag = "testcase") =>
        LET c == Top'.elem.children[Len(Top'.elem.children)]
            drawn == GenerateRandomVerdict(After(rng, 5))
        IN  /\ Result(c.children[Len(c.children)]) = drawn
            /\ StepsAgree(Steps(c), drawn)

VerdictOnce == []VerdictConsistent /\ [][VerdictThreaded]_vars

\* a finished module with a failing case that has a failed step with a
\* tabularinfo block, a failed step without one and a passed step, and with
\* an inconclusive case and a passing case
VerdictOnceWitness ==
    /\ Finished
    /\ Some(CompletedOf("testcase"),
            LAMBDA c :
                /\ Result(c.children[Len(c.children)]) = "fail"
                /\ Some(Steps(c), LAMBDA s : Result(s) = "fail" /\ Len(s.children) = 1)
                /\ Some(Steps(c), LAMBDA s : Result(s) = "fail" /\ Len(s.children) = 0)
                /\ Some(Steps(c), LAMBDA s : Result(s) = "pass"))
    /\ Some(CompletedOf("testcase"),
            LAMBDA c : Result(c.children[Len(c.children)]) = "inconclusive")
    /\ Some(CompletedOf("testcase"),
            LAMBDA c : Result(c.children[Len(c.children)]) = "pass")

-----------------------------------------------------------------------------
(* C8: every tabularinfo block has exactly 5 rows, named Service, Request, *)
(* Expected, Actual, Error in this order, each of exactly 3 cells, and the *)
(* last two characters of the third cell of the Error row are the last two *)
(* characters of the response-bytes cell of the Actual row.                *)

RowNames == <<"Service", "Request", "Expected", "Actual", "Error">>

TabularShape(t) ==
    /\ Len(t.children) = 5
    /\ \A k \in 1..Len(t.children) :
          /\ t.children[k].tag = "row"
          /\ Len(t.children[k].children) = 3
          /\ Tags(t.children[k].children) = {"cell"}
          /\ t.children[k].children[1].text = <<RowNames[k]>>
    /\ LET actual == t.children[4].children[2].text
           nrc == t.children[5].children[3].text
       IN  /\ Len(actual) >= 2
           /\ Len(nrc) >= 2
           /\ nrc[Len(nrc) - 1] = actual[Len(actual) - 1]
           /\ nrc[Len(nrc)] = actual[Len(actual)]

TabularShapes ==
    Settled =>
        Every(SelectSeq(DocOrder, LAMBDA e : e.tag = "tabularinfo"), TabularShape)

\* a finished module whose tabularinfo blocks show every error code and at
\* least five services
TabularShapesWitness ==
    LET blocks == CompletedOf("tabularinfo")
    IN  /\ Finished
        /\ Cardinality({blocks[k].children[4].children[2].text :
                            k \in 1..Len(blocks)}) = Len(ErrorCodes)
        /\ Cardinality({blocks[k].children[1].children[2].text :
                            k \in 1..Len(blocks)}) >= 5

-----------------------------------------------------------------------------
(* C2: two runs of generate_test_module with the same seed (not None),     *)
(* group count, nesting flag and file index write identical documents,     *)
(* whatever was drawn from the stream before each of them; compared        *)
(* whenever the second run is between two files or over.                   *)

SameParameters(a, b) ==
    /\ a.seed # None
    /\ a.seed = b.seed
    /\ a.num_groups = b.num_groups
    /\ a.nested = b.nested
    /\ a.file_index = b.file_index

Deterministic ==
    (run = 2 /\ pc \in {"loop", "done"}) =>
        \A k \in 1..Len(generated_files) : \A j \in 1..Len(prev.calls) :
            SameParameters(calls[k], prev.calls[j]) =>
                files[calls[k].filename] = prev.files[prev.calls[j].filename]

\* a second run finished, with a base seed, nesting and a drawn group
\* count, whose two calls had the parameters of the first run's calls
DeterministicWitness ==
    /\ run = 2
    /\ pc = "done"
    /\ args.seed # None
    /\ args.nested
    /\ args.random_groups
    /\ Len(calls) = 2
    /\ \A k \in 1..2 : SameParameters(calls[k], prev.calls[k])

-----------------------------------------------------------------------------
(* C3: with a base seed, two batch runs with the same command line write   *)
(* the same files, the group count drawn under --random-groups included.   *)

BatchReproducible ==
    (run = 2 /\ pc = "done" /\ args.seed # None) => files = prev.files

-----------------------------------------------------------------------------
(* C9: the i-th generation call of a batch has file index i, seed S + i    *)
(* (no seed when S is absent) and the file name P, i zero-padded to 3      *)
(* digits, ".xml"; the file names, the seeds and the root starttime values *)
(* (base date plus i minutes) of a batch are pairwise distinct.            *)

\* the value of the root's starttime attribute in a written document
StartTimeOf(bytes) == SubSeq(bytes, 8, 26)

\* the minutes after midnight a 'YYYY-MM-DD HH:MM:SS' string names
MinuteOfDay(str) ==
    60 * ParseDigits(SubSeq(str, 12, 13)) + ParseDigits(SubSeq(str, 15, 16))

CallOf(k) ==
    LET f == calls[k].filename
        n == Len(f)
    IN  /\ calls[k].file_index = k
        /\ calls[k].seed = (IF args.seed = None THEN None ELSE args.seed + k)
        /\ SubSeq(f, 1, 3) = <<args.folder, "/", args.prefix>>
        /\ f[n] = ".xml"
        /\ n - 4 >= 3
        /\ ParseDigits(SubSeq(f, 4, n - 1)) = k
        /\ (n - 4 > 3 => f[4] # "0")

BatchCalls ==
    /\ \A k \in 1..Len(calls) : CallOf(k)
    /\ \A k \in 1..Len(generated_files) :
          LET start == StartTimeOf(files[calls[k].filename])
          IN  /\ SubSeq(start, 1, 11)
                   = <<"2", "0", "2", "6", "-", "0", "2", "-", "1", "0", " ">>
              /\ MinuteOfDay(start) = 600 + k
              /\ SubSeq(start, 17, 19) = <<":", "0", "0">>
    /\ \A j, k \in 1..Len(calls) :
          j < k =>
            /\ calls[j].filename # calls[k].filename
            /\ args.seed # None => calls[j].seed # calls[k].seed
            /\ k <= Len(generated_files) =>
                  StartTimeOf(files[calls[j].filename])
                    # StartTimeOf(files[calls[k].filename])

\* a finished batch of two files with a base seed
BatchCallsWitness ==
    /\ pc = "done"
    /\ args.seed # None
    /\ Len(generated_files) = 2

-----------------------------------------------------------------------------
(* C10: a batch is generated one file after the other, in index order:     *)
(* file i is built, serialized and written before anything is drawn or     *)
(* built for file i+1, and at most one file is under generation.           *)

Written(index) == Filepath(args.folder, args.prefix, index) \in DOMAIN files

Sequential ==
    /\ Len(calls) - Len(generated_files) \in {0, 1}
    /\ pc \in {"call", "groups", "write_error"} =>
          Len(calls) = i /\ Len(generated_files) = i - 1
    /\ pc \in {"loop", "done", "error"} =>
          /\ Len(calls) = i - 1
          /\ Len(generated_files) = i - 1
          /\ stack = <<>>
    /\ \A j \in 1..Len(generated_files) :
          generated_files[j] = calls[j].filename /\ Written(j)
    /\ DOMAIN files \ {generated_files[j] : j \in 1..Len(generated_files)}
          \subseteq (IF pc = "write_error" THEN {call.filename} ELSE {})

InOrder ==
    \* a draw or a construction in iteration i finds files 1..i-1 written
    /\ (rng' # rng \/ stack' # stack \/ root' # root) =>
          \A j \in 1..(i - 1) : Written(j)
    \* a file is written when its tree is complete, and holds that tree
    \* unless the write fails
    /\ files' # files =>
          /\ stack = <<>>
          /\ Len(root.children)
               = 1 + (IF call.num_groups > 0 THEN call.num_groups ELSE 0)
          /\ DOMAIN files' = DOMAIN files \cup {call.filename}
          /\ pc' # "write_error" =>
                files'[call.filename] = Document(root') /\ i' = i + 1

BatchSequential == []Sequential /\ [][InOrder]_vars

\* the second file under generation, the first one written
BatchSequentialWitness ==
    /\ pc = "groups"
    /\ i = 2
    /\ Len(stack) >= 2
    /\ Len(Top.elem.children) >= 2
    /\ Written(1)

-----------------------------------------------------------------------------
(* C11: when the write of file i fails, the error leaves                   *)
(* generate_test_module and main after that one write attempt: the         *)
(* process stops there, so no file with a greater index is generated, and  *)
(* the files 1..i-1 written before stay in the folder as they were.        *)

\* how often tree.write was called for a file
AttemptsFor(filename) ==
    Cardinality({k \in 1..Len(attempts) : attempts[k] = filename})

WriteFailureState ==
    pc = "write_error" =>
        /\ AttemptsFor(call.filename) = 1
        /\ Len(calls) = i
        /\ call = calls[i]
        /\ Len(generated_files) = i - 1
        /\ \A j \in 1..(i - 1) : Written(j) /\ AttemptsFor(calls[j].filename) = 1

\* the failing step leaves every other file of the folder as it was
WriteFailureStep ==
    (pc # "write_error" /\ pc' = "write_error") =>
        \A f \in DOMAIN files \ {call.filename} :
            f \in DOMAIN files' /\ files'[f] = files[f]

\* nothing happens after the failure
WriteFailureFatal == pc = "write_error" => UNCHANGED vars

WriteFailure ==
    []WriteFailureState /\ [][WriteFailureStep /\ WriteFailureFatal]_vars

\* the write of the second file failed part way, the first file is written
WriteFailureWitness ==
    /\ pc = "write_error"
    /\ i = 2
    /\ Written(1)
    /\ Written(2)
    /\ files[call.filename] # <<>>

-----------------------------------------------------------------------------
(* C12: generate_test_module takes any group count N: the root of the      *)
(* module it leaves has a testsetup child and then max(N, 0) testgroup     *)
(* children numbered 1..N in order; for N <= 0 that is a document with the *)
(* root attributes and the setup block alone, and no error is raised (the  *)
(* one error of a run that is not a failed write is main's own draw of a   *)
(* group count).                                                           *)

\* max(n, 0)
AtLeastZero(n) == IF n > 0 THEN n ELSE 0

\* the number a top-level group's title ends with
TopGroupNumber(g) ==
    LET text == g.children[1].text
    IN  ParseDigits(SubSeq(text, Len(text) - 2, Len(text)))

\* the module of the running or last call is complete
ModuleBuilt ==
    \/ pc = "write_error"
    \/ Finished
    \/ pc = "groups" /\ stack = <<>> /\ group_num > call.num_groups

ModuleShape ==
    /\ ModuleBuilt =>
          /\ root.tag = "testmodule"
          /\ Len(root.attrib) = 4
          /\ Len(root.children) = 1 + AtLeastZero(call.num_groups)
          /\ root.children[1].tag = "testsetup"
          /\ \A k \in 1..AtLeastZero(call.num_groups) :
                /\ root.children[k + 1].tag = "testgroup"
                /\ TopGroupNumber(root.children[k + 1]) = k
    /\ pc = "error" => args.random_groups /\ Len(calls) = i - 1
    /\ \A k \in 1..Len(generated_files) : Written(k)

\* a batch of two modules written for a negative group count
ModuleShapeWitness ==
    /\ pc = "done"
    /\ Len(generated_files) = 2
    /\ call.num_groups < 0
    /\ Len(root.children) = 1
    /\ Len(files[call.filename]) > 20

-----------------------------------------------------------------------------
(* C13: as stated, every element is write-once: once a teststep, testcase, *)
(* skipped or testgroup element has been appended to its parent, none of   *)
(* its attributes, text, trailing text or children changes again while the *)
(* module is generated, serialization included.                            *)

\* an element without its children: tag, attributes, text, tail and the
\* number of children
Shallow(elem) ==
    [tag |-> elem.tag, attrib |-> elem.attrib, text |-> elem.text,
     tail |-> elem.tail, size |-> Len(elem.children)]

\* stands for an element that has no parent yet
Unappended == [tag |-> "", attrib |-> NoAttrib, text |-> NoText,
               tail |-> NoText, size |-> 0]

RECURSIVE ShallowAll(_)
\* the elements of a forest in document order, each without its children
ShallowAll(children) ==
    IF Len(children) = 0 THEN <<>>
    ELSE <<Shallow(children[1])>> \o ShallowAll(children[1].children)
           \o ShallowAll(Tail(children))

RECURSIVE AppendedIn(_)
\* the elements of the trees under construction in document order: the
\* appended ones without their children, Unappended for each tree's top
AppendedIn(trees) ==
    IF Len(trees) = 0 THEN <<>>
    ELSE <<Unappended>> \o ShallowAll(trees[1].children)
           \o AppendedIn(Tail(trees))

\* an element keeps its place in document order while its module is built
Appended == AppendedIn(Building)

Entities == {"teststep", "testcase", "skipped", "testgroup"}

\* every appended element with one of the tags is in next what it is in now
Unchanged(now, next, tags) ==
    /\ Len(next) >= Len(now)
    /\ \A k \in 1..Len(now) : now[k].tag \in tags => next[k] = now[k]

\* a step of the generation of a module changes no appended entity
WriteOnceEntities ==
    pc = "groups" =>
        \A now \in {Appended} : \A next \in {Appended'} :
            Unchanged(now, next, Entities)

WriteOnce == [][WriteOnceEntities]_vars

(* C13, amended: once an entity has been appended to its parent, none of   *)
(* its attributes or children and no text or trailing text that is not     *)
(* blank changes again; the one later change is the indentation pass       *)
(* before serialization, which replaces text and trailing text that are    *)
(* empty or whitespace by whitespace.                                      *)

\* a string that is empty or whitespace
AllWhitespace(str) == \A k \in 1..Len(str) : str[k] \in {" ", "\n"}

\* an element of Appended with blank text and tail emptied
Strip(e) ==
    [e EXCEPT !.text = IF AllWhitespace(@) THEN NoText ELSE @,
              !.tail = IF AllWhitespace(@) THEN NoText ELSE @]

\* a step of the generation of a module: before the write nothing appended
\* changes, in the write only blank text and tails do
WriteOnceStep ==
    pc = "groups" =>
        \A now \in {Appended} : \A next \in {Appended'} :
            LET tags == {now[k].tag : k \in 1..Len(now)} \ {Unappended.tag}
            IN  IF pc' = "groups"
                THEN Unchanged(now, next, tags)
                ELSE Unchanged([k \in 1..Len(now) |-> Strip(now[k])],
                               [k \in 1..Len(next) |-> Strip(next[k])], tags)

WriteOnceButIndent == [][WriteOnceStep]_vars

\* a written module in which the indentation pass gave a tail to a step
\* that has a tabularinfo child and kept the step's text
WriteOnceButIndentWitness ==
    /\ Finished
    /\ Some(CompletedOf("teststep"),
            LAMBDA e : /\ Len(e.children) = 1
                       /\ ~AllWhitespace(e.text)
                       /\ e.tail # NoText)

-----------------------------------------------------------------------------
(* C14: the measurementid of every root is 8 decimal digits and then the   *)
(* fixed suffix: the digits are a number from 10000000 to 99999999, so     *)
(* padding to 8 digits adds nothing and cuts nothing.                      *)

MeasurementIdShape(id) ==
    /\ Len(id) = 9
    /\ \A k \in 1..8 : \E d \in 1..10 : id[k] = DigitChars[d]
    /\ id[1] # "0"
    /\ ParseDigits(SubSeq(id, 1, 8)) >= 10000000
    /\ ParseDigits(SubSeq(id, 1, 8)) <= 99999999
    /\ id[9] = "-ffff-4444-82aa-af7cs55583"

\* the measurementid value in a written document: what stands between
\* measurementid=" and the closing quote
WrittenMeasurementId(bytes) ==
    LET at == CHOOSE k \in 1..Len(bytes) : bytes[k] = "measurementid"
        close == CHOOSE k \in (at + 2)..Len(bytes) :
                    /\ bytes[k] = "\""
                    /\ \A j \in (at + 2)..(k - 1) : bytes[j] # "\""
    IN  SubSeq(bytes, at + 2, close - 1)

MeasurementId ==
    /\ (pc \in {"groups", "write_error"} \/ Finished) =>
          MeasurementIdShape(Attr(root, "measurementid"))
    /\ \A k \in 1..Len(generated_files) :
          MeasurementIdShape(WrittenMeasurementId(files[generated_files[k]]))

\* a batch of two written files with different measurementids
MeasurementIdWitness ==
    /\ pc = "done"
    /\ Len(generated_files) = 2
    /\ WrittenMeasurementId(files[generated_files[1]])
         # WrittenMeasurementId(files[generated_files[2]])

-----------------------------------------------------------------------------
(* C15: as stated, the k-th child group (k = 1..child count, child count   *)
(* in 1..3) of a nested group with id P has the id P, a dot, k, and is one *)
(* level deeper, so the id in a nested group's title is the dot-joined     *)
(* path of child indices from its top-level ancestor.                      *)

\* the id a group's title ends with: what follows Level<n>_<type>_<area>_
TitleId(g) ==
    LET text == g.children[1].text
        at == CHOOSE k \in 1..Len(text) : text[k] = "Level"
    IN  SubSeq(text, at + 7, Len(text))

RECURSIVE ChildIds(_, _, _, _)
\* the nested groups below g, whose id is id and whose level is level, are
\* 1 to 3, and the k-th has the id joined from id, sep and k, at level + 1
ChildIds(g, id, level, sep) ==
    LET kids == Content(g)
    IN  "testgroup" \in Tags(kids) =>
            /\ Len(kids) >= 1
            /\ Len(kids) <= 3
            /\ \A k \in 1..Len(kids) :
                  /\ TitleId(kids[k]) = id \o <<sep>> \o Digits(k)
                  /\ TitleLevel(kids[k]) = level + 1
                  /\ ChildIds(kids[k], TitleId(kids[k]), level + 1, sep)

\* the ids of the module's nested groups are joined with sep; a top-level
\* group passes on its number as str() gives it
IdsJoinedWith(sep) ==
    /\ Settled =>
          \A n \in 2..Len(root.children) :
              ChildIds(root.children[n], Digits(n - 1), 1, sep)
    /\ \A k \in 2..Len(stack) :
          /\ ~stack[k].id.is_int
          /\ stack[k].id.str
               = IdStr(stack[k - 1].id) \o <<sep>> \o Digits(stack[k - 1].k)
          /\ stack[k].level = stack[k - 1].level + 1

DotJoinedIds == IdsJoinedWith(".")

(* C15, amended: the id of the k-th child group is P, an underscore, k     *)
(* (P a top-level group's number without padding, or a nested group's id), *)
(* at one level deeper; a nested group's title shows that underscore-      *)
(* joined path.                                                            *)

UnderscoreJoinedIds == IdsJoinedWith("_")

\* a written module with a group at level 3 that is not a first child
UnderscoreJoinedIdsWitness ==
    /\ Finished
    /\ Some(CompletedOf("testgroup"),
            LAMBDA g : /\ TitleLevel(g) = 3
                       /\ Len(TitleId(g)) = 5
                       /\ TitleId(g)[5] # "1")

-----------------------------------------------------------------------------
(* C16: as stated, in the tree the indentation pass leaves, every element  *)
(* with children, at depth d (the root at depth 0), has as its text a      *)
(* newline and 2(d+1) spaces, and its last child's tail is a newline and   *)
(* 2d spaces; every other non-root element at depth d has as its tail a    *)
(* newline and 2d spaces; a root without children gets no tail.            *)

\* a newline and 2n spaces
Margin(n) == [k \in 1..(2 * n + 1) |-> IF k = 1 THEN "\n" ELSE " "]

\* the text of an element with children at depth d: the margin of its
\* children; unless strict, a step may keep the description it had
ParentText(elem, d, strict) ==
    \/ elem.text = Margin(d + 1)
    \/ /\ ~strict
       /\ elem.tag = "teststep"
       /\ \E k \in 1..Len(Descriptions) : elem.text = <<Descriptions[k]>>

RECURSIVE Indented(_, _, _)
\* elem, at depth d, and everything below it is indented
Indented(elem, d, strict) ==
    LET n == Len(elem.children)
    IN  /\ n > 0 => ParentText(elem, d, strict)
        /\ \A k \in 1..n :
              /\ elem.children[k].tail = Margin(IF k = n THEN d ELSE d + 1)
              /\ Indented(elem.children[k], d + 1, strict)

\* the indentation pass has run over root
IndentDone == Finished \/ pc = "write_error"

\* what the pass makes of a root without children
BareRoot == Indent(Element("testmodule", NoAttrib, NoText, <<>>), 0)

IndentedStrictly ==
    IndentDone => Indented(root, 0, TRUE) /\ BareRoot.tail = NoText

(* C16, amended: as above, but an element with children gets the newline   *)
(* and 2(d+1) spaces as its text only if it has no text of its own: a      *)
(* teststep with a tabularinfo child keeps its description as its text.    *)

IndentedKeepingText ==
    IndentDone => Indented(root, 0, FALSE) /\ BareRoot.tail = NoText

\* an indented module with three levels of groups and a step that kept its
\* description in front of its tabularinfo child
IndentedKeepingTextWitness ==
    /\ Finished
    /\ GroupDepth(root) = DefaultMaxLevel
    /\ Some(CompletedOf("teststep"),
            LAMBDA e : Len(e.children) = 1 /\ ~AllWhitespace(e.text))

-----------------------------------------------------------------------------
(* C17: in a testcase the cursor is threaded: the first step is stamped    *)
(* half a second after the case, each later step 0.5 to 2.0 s after the    *)
(* step before it, the verdict at the cursor the last step returned (0.5   *)
(* to 2.0 s after the last step, so later than every step), and the cursor *)
(* returned to the caller is 1.0 to 3.0 s after the verdict; every         *)
(* timestamp attribute is its cursor value in the .1f format.              *)

Stamp(elem) == Attr(elem, "timestamp")

\* the last case a group's loop built, and the cursor values of that call
CaseClock(c, clock) ==
    LET steps == Steps(c)
        n == Len(steps)
        verdict == c.children[Len(c.children)]
    IN  /\ Len(clock.steps) = n
        /\ Stamp(c) = Fmt1(clock.timestamp)
        /\ clock.steps[1] = clock.timestamp + Half
        /\ \A j \in 1..n : Stamp(steps[j]) = Fmt1(clock.steps[j])
        /\ \A j \in 2..n :
              /\ clock.steps[j] - clock.steps[j - 1] >= Half
              /\ clock.steps[j] - clock.steps[j - 1] <= Secs(2)
        /\ verdict.tag = "verdict"
        /\ Stamp(verdict) = Fmt1(clock.verdict)
        /\ clock.verdict - clock.steps[n] >= Half
        /\ clock.verdict - clock.steps[n] <= Secs(2)
        /\ \A j \in 1..n :
              /\ clock.verdict > clock.steps[j]
              /\ ParseTenths(Stamp(verdict)) > ParseTenths(Stamp(steps[j]))
        /\ clock.returned - clock.verdict >= Secs(1)
        /\ clock.returned - clock.verdict <= Secs(3)

CursorThreaded ==
    \A k \in 1..Len(stack) :
        LET cases == SelectSeq(stack[k].elem.children,
                               LAMBDA e : e.tag = "testcase")
        IN  Len(cases) > 0 =>
                /\ CaseClock(cases[Len(cases)], stack[k].clock)
                /\ stack[k].current_time >= stack[k].clock.returned + Secs(1)

\* a group whose last case has 8 steps, one of them a full 1.9 s or more
\* after the step before it and one no more than 0.6 s
CursorThreadedWitness ==
    /\ stack # <<>>
    /\ Len(Top.clock.steps) = 8
    /\ \E j \in 2..8 : Top.clock.steps[j] - Top.clock.steps[j - 1] >= Secs(2) - 52
    /\ \E j \in 2..8 : Top.clock.steps[j] - Top.clock.steps[j - 1] <= Half + 52

-----------------------------------------------------------------------------
(* C18: generation terminates: the recursion of generate_test_group is no  *)
(* deeper than the maximum depth, a group's loop runs at most 3 times over *)
(* nested groups or 15 times over flat children, a case has at most 8      *)
(* steps, the process ends with every call of generate_test_module         *)
(* returned but one that raised, and when it ends without a failure main   *)
(* has made exactly count generation calls.                                *)

\* the bounds of the loops and of the recursion
LoopsBounded ==
    /\ Len(stack) <= DefaultMaxLevel
    /\ \A k \in 1..Len(stack) :
          /\ stack[k].level = k
          /\ stack[k].num <= (IF BranchNested(stack[k]) THEN 3 ELSE 15)
          /\ stack[k].k <= stack[k].num + 1
          /\ Len(stack[k].elem.children) = stack[k].k
          /\ Len(stack[k].clock.steps) <= 8
    /\ pc = "groups" =>
          /\ group_num <= 1 + (IF call.num_groups > 0 THEN call.num_groups ELSE 0)
          /\ Len(root.children) = group_num
    /\ i <= args.count + 1

\* the process has ended: normally, or with an uncaught exception
Halted == pc \in {"done", "error", "write_error"}

\* main ended without a failure after exactly count generation calls
ExactlyCount ==
    pc = "done" => /\ Len(calls) = args.count
                   /\ Len(generated_files) = args.count
                   /\ i = args.count + 1

\* every call of generate_test_module main has made has returned, but for
\* the one that is running or that raised
CallsFinished ==
    Len(generated_files) =
        Len(calls) - (IF pc \in {"call", "groups", "write_error"} THEN 1 ELSE 0)

Termination ==
    /\ []LoopsBounded
    /\ []CallsFinished
    /\ []ExactlyCount
    /\ <>Halted

\* a finished batch of two files, the second with two top-level groups
TerminationWitness ==
    /\ pc = "done"
    /\ Len(calls) = 2
    /\ Len(root.children) = 3

=============================================================================
